---- MODULE Spec2Model ----
(***************************************************************************)
(* A model of the milter server: the accept loop and graceful shutdown of  *)
(* Server (RunServer, Close, handleCon, handlePanic) and the per-connection *)
(* session (ReadPacket, Process, WritePacket, HandleMilterCommands).        *)
(* Bytes are naturals 0..255, strings and payloads are sequences of bytes.  *)
(***************************************************************************)
EXTENDS Integers, Sequences, FiniteSets, TLC

\* ---------------------------------------------------------------- bounds
MaxConns == 2        \* connections the MTA opens in a concurrent run
MaxCmds == 1         \* packets the MTA sends on a connection it drives freely
NumHandlers == 2     \* largest number of registered fault handlers
MaxCloses == 2       \* calls of Close the application makes
MaxLen == 3          \* longest payload sent through the codec

Conns == 1..MaxConns

\* ------------------------------------------------- protocol option bits
OptNoRcptTo == 8
OptNrHdr == 128
OptNrConn == 4096
OptNrHelo == 8192
OptNrMailFrom == 16384
OptNrRcptTo == 32768
OptNrData == 65536
OptNrUnknown == 131072
OptNrEOH == 262144
OptNrBody == 524288

\* ------------------------------------------------------- command codes
CodeA == 65
CodeB == 66
CodeC == 67
CodeD == 68
CodeE == 69
CodeH == 72
CodeL == 76
CodeM == 77
CodeN == 78
CodeO == 79
CodeQ == 81
CodeR == 82
CodeT == 84
CodeX == 88          \* a code the switch of Process does not list

KnownCodes ==
  {CodeA, CodeB, CodeC, CodeD, CodeE, CodeH, CodeL, CodeM, CodeN, CodeO,
   CodeQ, CodeR, CodeT}

Family4 == 52
Family6 == 54

\* ------------------------------------------------------ response codes
RespContinue == 99
RespAccept == 97
RespTempFail == 116

\* --------------------------------------------------------------- bytes
Drop(s, n) == SubSeq(s, n + 1, Len(s))

Take(s, n) == SubSeq(s, 1, n)

\* BE32 with the byte order reversed
LE32(n) ==
  << n % 256, (n \div 256) % 256, (n \div 65536) % 256, (n \div 16777216) % 256 >>

\* binary.Write(buffer, binary.BigEndian, uint32)
BE32(n) ==
  << (n \div 16777216) % 256, (n \div 65536) % 256, (n \div 256) % 256, n % 256 >>

\* binary.Read(sock, binary.BigEndian, &length) on four bytes
FromBE32(b) == b[1] * 16777216 + b[2] * 65536 + b[3] * 256 + b[4]

HasBit(mask, bit) == (mask \div bit) % 2 = 1

\* ------------------------------------------------------------ C-strings
\* readCString: the bytes before the first NUL (all of them if there is none)
RECURSIVE readCString(_)
readCString(data) ==
  IF data = << >> \/ data[1] = 0 THEN << >>
  ELSE << data[1] >> \o readCString(Tail(data))

\* decodeCStrings: the NUL-terminated strings of a payload, in order
RECURSIVE decodeCStrings(_)
decodeCStrings(data) ==
  IF data = << >> THEN << >>
  ELSE LET s == readCString(data)
       IN  << s >> \o decodeCStrings(Drop(data, Len(s) + 1))

\* ------------------------------------------------------- framing codec
Message(code, data) == [Code |-> code, Data |-> data]

\* WritePacket whose length leaves out the code byte
WritePacketShortLength(msg) ==
  BE32(Len(msg.Data)) \o << msg.Code >> \o msg.Data

\* The bytes WritePacket flushes to the socket for a message (payloads
\* here stay far below the 2^32 bytes at which the uint32 length wraps).
WritePacket(msg) ==
  BE32(Len(msg.Data) + 1) \o << msg.Code >> \o msg.Data

\* ReadPacket on the bytes the MTA delivered before the next read returns;
\* reset is a transport error of the socket.
ReadPacket(chunk, reset) ==
  IF reset \/ Len(chunk) < 4
  THEN [kind |-> "err", length |-> -1, msg |-> Message(0, << >>)]
  ELSE LET length == FromBE32(Take(chunk, 4))
           body == Drop(chunk, 4)
       IN  IF Len(body) < length
           THEN [kind |-> "err", length |-> length, msg |-> Message(0, << >>)]
           ELSE IF length = 0
           THEN [kind |-> "panic", length |-> length, msg |-> Message(0, << >>)]
           ELSE [kind |-> "ok", length |-> length,
                 msg |-> Message(body[1], SubSeq(body, 2, length))]

\* ----------------------------------------------------------- responses
NilResponse == [isNil |-> TRUE, Code |-> 0, Data |-> << >>]

NewResponse(code, data) == [isNil |-> FALSE, Code |-> code, Data |-> data]

SimpleResponse(code) == NewResponse(code, << >>)

\* ------------------------------------------------ filter and its hooks
\* What a filter event callback does when invoked: return a verdict,
\* return an error, or panic with an error or with another value.
Outcomes == {"continue", "accept", "error", "panicErr", "panicVal"}

NilMap == [isNil |-> TRUE, kv |-> << >>]

EmptyMap == [isNil |-> FALSE, kv |-> << >>]

\* Result of Process: the response and error it returns (or the value it
\* panics with), the session's maps afterwards and the hooks it invoked.
Return(resp, err, headers, macros, calls) ==
  [resp |-> resp, err |-> err, panic |-> "none", out |-> "none",
   headers |-> headers, macros |-> macros, calls |-> calls]

Panic(val, headers, macros, calls) ==
  [resp |-> NilResponse, err |-> "nil", panic |-> val, out |-> "none",
   headers |-> headers, macros |-> macros, calls |-> calls]

\* Callback whose error is dropped: the verdict goes out as if err were nil
CallbackErrorDropped(hook, out, headers, macros, before) ==
  LET calls == before \o << hook >>
      r == CASE out \in {"continue", "error"} ->
                  Return(SimpleResponse(RespContinue), "nil", headers, macros, calls)
             [] out = "accept" ->
                  Return(SimpleResponse(RespAccept), "nil", headers, macros, calls)
             [] out = "panicErr" -> Panic("error", headers, macros, calls)
             [] OTHER -> Panic("value", headers, macros, calls)
  IN  [r EXCEPT !.out = out]

\* m.milter.<hook>(...) with the outcome the filter chose
Callback(hook, out, headers, macros, before) ==
  LET calls == before \o << hook >>
      r == CASE out = "continue" ->
                  Return(SimpleResponse(RespContinue), "nil", headers, macros, calls)
             [] out = "accept" ->
                  Return(SimpleResponse(RespAccept), "nil", headers, macros, calls)
             [] out = "error" ->
                  Return(NilResponse, "filter", headers, macros, calls)
             [] out = "panicErr" -> Panic("error", headers, macros, calls)
             [] OTHER -> Panic("value", headers, macros, calls)
  IN  [r EXCEPT !.out = out]

\* textproto.CanonicalMIMEHeaderKey on a key of letters and '-': the first
\* letter and every letter after a '-' upper case, the others lower case
RECURSIVE CanonicalKey(_, _)
CanonicalKey(key, upper) ==
  IF key = << >> THEN << >>
  ELSE LET b == key[1]
           c == IF upper /\ b >= 97 /\ b <= 122 THEN b - 32
                ELSE IF ~upper /\ b >= 65 /\ b <= 90 THEN b + 32
                ELSE b
       IN  << c >> \o CanonicalKey(Tail(key), b = 45)

\* m.headers.Add(name, value)
HeadersAdd(headers, name, value) ==
  [isNil |-> FALSE,
   kv |-> Append(headers.kv, << CanonicalKey(name, TRUE), value >>)]

\* m.macros[key] = value
RECURSIVE MapPut(_, _, _)
MapPut(kv, key, value) ==
  IF kv = << >> THEN << << key, value >> >>
  ELSE IF kv[1][1] = key THEN << << key, value >> >> \o Tail(kv)
  ELSE << kv[1] >> \o MapPut(Tail(kv), key, value)

\* the loop of case 'D': for i := 0; i < len(data); i += 2
RECURSIVE DefineMacros(_, _)
DefineMacros(kv, data) ==
  IF data = << >> THEN [panic |-> FALSE, kv |-> kv]
  ELSE IF Len(data) = 1 THEN [panic |-> TRUE, kv |-> kv]
  ELSE DefineMacros(MapPut(kv, data[1], data[2]), Drop(data, 2))

\* ------------------------------------------------------------- Process
\* Unrecognized without the return: falls through to the default Continue
UnrecognizedContinue(headers, macros) ==
  Return(SimpleResponse(RespContinue), "nil", headers, macros, << >>)

\* The default case of the switch: log the code and close the session.
Unrecognized(headers, macros) ==
  Return(NilResponse, "close", headers, macros, << >>)

\* Process(msg) on a session with the given bitmasks and maps; out is what
\* the filter does if an event callback is invoked.
Process(msg, actions, protocol, headers, macros, out) ==
  LET d == msg.Data
      Default == Return(SimpleResponse(RespContinue), "nil", headers, macros, << >>)
  IN
  CASE msg.Code = CodeA ->
         Return(NilResponse, "nil", NilMap, NilMap, << "Init" >>)
    [] msg.Code = CodeB ->
         Callback("BodyChunk", out, headers, macros, << >>)
    [] msg.Code = CodeC ->
         LET Hostname == readCString(d)
         IN  IF Len(Hostname) + 1 > Len(d)
             THEN Panic("error", headers, macros, << >>)
             ELSE LET d1 == Drop(d, Len(Hostname) + 1)
                  IN  IF d1 = << >>
                      THEN Panic("error", headers, macros, << >>)
                      ELSE IF d1[1] \in {Family4, Family6} /\ Len(d1) - 1 < 2
                      THEN Return(SimpleResponse(RespTempFail), "nil",
                                  headers, macros, << >>)
                      ELSE Callback("Connect", out, headers, macros, << >>)
    [] msg.Code = CodeD ->
         IF d = << >>
         THEN Panic("error", headers, EmptyMap, << >>)
         ELSE LET r == DefineMacros(<< >>, decodeCStrings(Drop(d, 1)))
                  m == [isNil |-> FALSE, kv |-> r.kv]
              IN  IF r.panic THEN Panic("error", headers, m, << >>)
                  ELSE Return(NilResponse, "nil", headers, m, << >>)
    [] msg.Code = CodeE ->
         Callback("Body", out, headers, macros, << >>)
    [] msg.Code = CodeH ->
         Callback("Helo", out, headers, macros, << >>)
    [] msg.Code = CodeL ->
         LET h == IF headers.isNil THEN EmptyMap ELSE headers
             HeaderData == decodeCStrings(d)
         IN  IF Len(HeaderData) = 2
             THEN Callback("Header", out,
                           HeadersAdd(h, HeaderData[1], HeaderData[2]),
                           macros, << >>)
             ELSE Return(SimpleResponse(RespContinue), "nil", h, macros, << >>)
    [] msg.Code = CodeM ->
         Callback("MailFrom", out, headers, macros, << "Init" >>)
    [] msg.Code = CodeN ->
         Callback("Headers", out, headers, macros, << >>)
    [] msg.Code = CodeO ->
         Return(NewResponse(CodeO, BE32(2) \o BE32(actions) \o BE32(protocol)),
                "nil", headers, macros, << >>)
    [] msg.Code = CodeQ ->
         Return(NilResponse, "close", headers, macros, << >>)
    [] msg.Code = CodeR ->
         Callback("RcptTo", out, headers, macros, << >>)
    [] msg.Code = CodeT ->
         Default
    [] OTHER ->
         Unrecognized(headers, macros)

\* ------------------------------------------------------ the MTA's side
\* A packet as the MTA frames it: length, code, payload (of up to 254 bytes).
Frame(code, payload) == << 0, 0, 0, Len(payload) + 1 >> \o << code >> \o payload

ConnectPayload == << 104, 0, Family4, 0, 25, 49, 0 >>   \* "h" NUL '4' port 25 "1" NUL

HeaderPayload == << 120, 45, 97, 0, 118, 0 >>            \* "x-a" NUL "v" NUL

MacroPayload == << 67, 106, 0, 118, 0 >>                 \* stage 'C', "j" NUL "v" NUL

Header2Payload == << 121, 0, 119, 0 >>                   \* "y" NUL "w" NUL

Macro2Payload == << 72, 105, 0, 119, 0 >>                \* stage 'H', "i" NUL "w" NUL

\* The MTA's own version and bitmasks, sent with O
NegotiatePayload == << 0, 0, 0, 6, 0, 0, 1, 255, 0, 31, 255, 255 >>

\* A well-formed payload for each command code.
GoodPayload(code) ==
  CASE code = CodeC -> ConnectPayload
    [] code = CodeL -> HeaderPayload
    [] code = CodeD -> MacroPayload
    [] code = CodeO -> NegotiatePayload
    [] code \in {CodeH, CodeM, CodeR} -> << 97, 0 >>
    [] code = CodeB -> << 98 >>
    [] OTHER -> << >>

GoodFrame(code) == Frame(code, GoodPayload(code))

ZeroLengthFrame == << 0, 0, 0, 0 >>

\* What the MTA can deliver to one read of a connection it drives freely:
\* a well-formed packet of any code, a packet with a short payload, a
\* zero length prefix, a truncated packet followed by EOF, or plain EOF.
Chunks ==
  { GoodFrame(code) : code \in KnownCodes \cup {CodeX} } \cup
  { Frame(CodeC, << 104, 0 >>),                 \* C without family byte
    Frame(CodeC, << 104, 0, Family4, 0 >>),     \* C with one port byte
    Frame(CodeL, << 120, 0 >>),                 \* L with one string
    Frame(CodeD, << >>),                        \* D with empty payload
    Frame(CodeD, << 67, 106, 0 >>),             \* D with a key and no value
    ZeroLengthFrame,
    << 0, 0, 0, 5, CodeC >>,                    \* EOF inside the payload
    << 0, 0 >>,                                 \* EOF inside the length
    << >> }

\* How a write to the socket can go: all bytes accepted, or an error after
\* none or after some of them.
WriteResults == {"ok", "fail", "short"}

\* One round of the session loop as its environment determines it: the
\* bytes (or transport error) the read meets, what the filter does if a
\* callback is invoked, and whether the socket accepts the response.
Event(chunk, out, wr) == [chunk |-> chunk, reset |-> FALSE, out |-> out, wr |-> wr]

ResetEvent == [chunk |-> << >>, reset |-> TRUE, out |-> "continue", wr |-> "ok"]

Events ==
  { Event(f, o, w) : f \in Chunks, o \in Outcomes, w \in WriteResults }
    \cup { ResetEvent }

Ok(code) == Event(GoodFrame(code), "continue", "ok")

RECURSIVE Script(_)
Script(codes) ==
  IF codes = << >> THEN << >> ELSE << Ok(codes[1]) >> \o Script(Tail(codes))

LifecycleCodes ==
  << CodeO, CodeC, CodeH, CodeM, CodeR, CodeT, CodeL, CodeL, CodeN, CodeB,
     CodeE, CodeQ >>

AbortCodes ==
  << CodeO, CodeC, CodeM, CodeR, CodeA, CodeM, CodeR, CodeE, CodeQ >>

\* Two messages on one connection, with macros defined before C and before H
\* and one header in each message.
TwoMessageCodes ==
  << CodeO, CodeD, CodeC, CodeD, CodeH, CodeM, CodeR, CodeL, CodeN, CodeE,
     CodeM, CodeR, CodeL, CodeN, CodeE, CodeQ >>

TwoMessages ==
  [Script(TwoMessageCodes) EXCEPT
     ![4] = Event(Frame(CodeD, Macro2Payload), "continue", "ok"),
     ![13] = Event(Frame(CodeL, Header2Payload), "continue", "ok")]

\* Whole conversations of a single connection.
LongScripts ==
  { Script(LifecycleCodes),
    Script(AbortCodes),
    TwoMessages,
    [Script(LifecycleCodes) EXCEPT ![3] = Event(GoodFrame(CodeH), "accept", "ok")],
    [Script(LifecycleCodes) EXCEPT ![7] = Event(GoodFrame(CodeL), "panicVal", "ok")],
    [Script(LifecycleCodes) EXCEPT ![4] = Event(GoodFrame(CodeM), "error", "ok")],
    << Ok(CodeO), Event(ZeroLengthFrame, "continue", "ok") >> }

\* Conversations after which the MTA goes on to send packets of its choice.
Prefixes ==
  { << >>,
    Script(<< CodeO >>) }

\* Short conversations of connections served concurrently.
ShortScripts ==
  { << Ok(CodeO), Ok(CodeC), Ok(CodeQ) >>,
    << Ok(CodeO), Event(GoodFrame(CodeH), "panicErr", "ok") >> }

\* The bitmasks the filter factory returns.
TestFactory == [actions |-> 17, protocol |-> OptNoRcptTo]

NoReplyFactory == [actions |-> 511, protocol |-> OptNrConn + OptNrHdr + OptNrBody]

FactoryResults == { TestFactory, NoReplyFactory }

\* Server.ErrHandlers: nil, or a slice of n handlers
HandlerConfigs ==
  { [isNil |-> TRUE, n |-> 0] } \cup
  { [isNil |-> FALSE, n |-> k] : k \in 0..NumHandlers }

\* The codes and payloads of the messages sent through the codec.
PayloadBytes == {0, 65, 255}

Payloads == UNION { [1..n -> PayloadBytes] : n \in 0..MaxLen }

Messages == { Message(code, data) : code \in {0, RespContinue, 255}, data \in Payloads }

\* The codec's socket: the messages still to write, the bytes in the
\* stream, the messages written and the results of the reads.
NoCodec == [queue |-> << >>, sock |-> << >>, sent |-> << >>, got |-> << >>]

\* ---------------------------------------------------------------- state
VARIABLES
  Listener,       \* "open" or "closed": the server's listener
  ErrHandlers,    \* the registered fault handlers
  MilterFactory,  \* the bitmasks the factory returns with each new filter
  runPC,          \* RunServer: "accept", "accepted" (before s.Add) or "returned"
  conn,           \* the connection Accept handed to RunServer, 0 if none
  toAccept,       \* connections the MTA has yet to open
  wg,             \* the counter of the server's WaitGroup
  closePC,        \* Close: "idle", "wait" (listener closed, in s.Wait) or "returned"
  crashed,        \* an unrecovered panic has ended the process
  pc,             \* per connection: position of its session goroutine
  session,        \* per connection: the milterSession fields
  plan,           \* per connection: the conversation the MTA has committed to
  left,           \* per connection: packets the MTA may still send freely
  calls,          \* per connection: the filter hooks invoked, in order
  wire,           \* per connection: the bytes written to the socket
  rcvd,           \* per connection: the packets read
  outs,           \* per connection: what the filter did in each event callback
  last,           \* per connection: the latest round of the session loop
  panicv,         \* per connection: the value the goroutine is panicking with
  fault,          \* per connection: the value of the panic that ended the session
  hcalls,         \* per connection: the handler invocations for its panic
  closed,         \* per connection: how often sock.Close ran
  after,          \* per connection: sessions already over when it was accepted
  acceptFails,    \* the listener, while open, will report an error from an Accept
  acceptErr,      \* the error of the latest Accept, "nil" if it reported none
  runRet,         \* the value RunServer returned, "none" while it runs
  closes,         \* Close calls the application has yet to make
  closeErr,       \* the err of each Close call made so far, in order
  codec           \* a socket on which packets are written and read back

vars ==
  << Listener, ErrHandlers, MilterFactory, runPC, conn, toAccept, wg, closePC,
     crashed, pc, session, plan, left, calls, wire, rcvd, outs, last, panicv,
     fault, hcalls, closed, after, acceptFails, acceptErr, runRet, closes,
     closeErr, codec >>

serverVars ==
  << Listener, ErrHandlers, MilterFactory, runPC, conn, toAccept, closePC,
     acceptFails, acceptErr, runRet, closes, closeErr >>

NoRound ==
  [read |-> "none", length |-> -1, Code |-> 0, calls |-> << >>,
   resp |-> NilResponse, err |-> "nil", panic |-> "none", wrote |-> << >>,
   wr |-> "none"]

NewSession ==
  [actions |-> 0, protocol |-> 0, headers |-> NilMap, macros |-> NilMap]

InitCommon ==
  /\ Listener = "open"
  /\ runPC = "accept"
  /\ conn = 0
  /\ wg = 0
  /\ closePC = "idle"
  /\ crashed = FALSE
  /\ pc = [c \in Conns |-> "none"]
  /\ session = [c \in Conns |-> NewSession]
  /\ calls = [c \in Conns |-> << >>]
  /\ wire = [c \in Conns |-> << >>]
  /\ rcvd = [c \in Conns |-> << >>]
  /\ outs = [c \in Conns |-> << >>]
  /\ last = [c \in Conns |-> NoRound]
  /\ panicv = [c \in Conns |-> "none"]
  /\ fault = [c \in Conns |-> "none"]
  /\ hcalls = [c \in Conns |-> << >>]
  /\ closed = [c \in Conns |-> 0]
  /\ after = [c \in Conns |-> {}]
  /\ acceptErr = "nil"
  /\ runRet = "none"
  /\ closeErr = << >>

\* Several connections served concurrently, each with a short conversation.
InitConcurrent ==
  /\ ErrHandlers \in HandlerConfigs
  /\ MilterFactory = TestFactory
  /\ toAccept = MaxConns
  /\ plan \in [Conns -> ShortScripts]
  /\ left = [c \in Conns |-> 0]
  /\ acceptFails = FALSE
  /\ closes = 1

\* One connection with a whole scripted conversation.
InitScripted ==
  /\ ErrHandlers \in { h \in HandlerConfigs : h.isNil \/ h.n = 1 }
  /\ MilterFactory \in FactoryResults
  /\ toAccept = 1
  /\ \E s \in LongScripts : plan = [c \in Conns |-> IF c = 1 THEN s ELSE << >>]
  /\ left = [c \in Conns |-> 0]
  /\ acceptFails = FALSE
  /\ closes = 1

\* One connection on which, after a scripted prefix, the MTA sends MaxCmds
\* packets of its choice.
InitFree ==
  /\ ErrHandlers = [isNil |-> FALSE, n |-> 1]
  /\ MilterFactory = NoReplyFactory
  /\ toAccept = 1
  /\ \E s \in Prefixes : plan = [c \in Conns |-> IF c = 1 THEN s ELSE << >>]
  /\ left = [c \in Conns |-> IF c = 1 THEN MaxCmds ELSE 0]
  /\ acceptFails = FALSE
  /\ closes = 1

\* One connection with a short conversation, a listener whose Accept may
\* report an error, and an application that calls Close MaxCloses times.
InitShutdown ==
  /\ ErrHandlers = [isNil |-> FALSE, n |-> 1]
  /\ MilterFactory = TestFactory
  /\ toAccept = 1
  /\ \E s \in ShortScripts : plan = [c \in Conns |-> IF c = 1 THEN s ELSE << >>]
  /\ left = [c \in Conns |-> 0]
  /\ acceptFails \in BOOLEAN
  /\ closes = MaxCloses

Init ==
  /\ InitCommon
  /\ codec = NoCodec
  /\ (InitConcurrent \/ InitScripted \/ InitFree \/ InitShutdown)

\* ------------------------------------------------------------ RunServer
\* s.Listener.Accept() returns a connection
Accept ==
  /\ ~crashed /\ runPC = "accept" /\ Listener = "open" /\ toAccept > 0
  /\ conn' = Cardinality({c \in Conns : pc[c] # "none"}) + 1
  /\ acceptErr' = "nil"
  /\ toAccept' = toAccept - 1
  /\ runPC' = "accepted"
  /\ UNCHANGED << Listener, ErrHandlers, MilterFactory, wg, closePC, crashed, pc,
                  session, plan, left, calls, wire, rcvd, outs, last, panicv, fault,
                  hcalls, closed, after, acceptFails, runRet, closes, closeErr,
                  codec >>

\* Accept on the closed listener returns no connection and the error of a
\* closed listener: conn == nil, so RunServer returns nil
AcceptClosed ==
  /\ ~crashed /\ runPC = "accept" /\ Listener = "closed"
  /\ acceptErr' = "closed"
  /\ runRet' = "nil"
  /\ runPC' = "returned"
  /\ UNCHANGED << Listener, ErrHandlers, MilterFactory, conn, toAccept, wg, closePC,
                  crashed, pc, session, plan, left, calls, wire, rcvd, outs, last,
                  panicv, fault, hcalls, closed, after, acceptFails, closes,
                  closeErr, codec >>

\* Accept on the open listener reports an error. A listener of package net
\* returns no connection with it (conn == nil: return nil); a net.Listener
\* that returns a connection next to the error makes RunServer return err.
AcceptError ==
  /\ ~crashed /\ runPC = "accept" /\ Listener = "open" /\ acceptFails
  /\ \E withConn \in BOOLEAN :
       runRet' = IF withConn THEN "temporary" ELSE "nil"
  /\ acceptErr' = "temporary"
  /\ acceptFails' = FALSE
  /\ runPC' = "returned"
  /\ UNCHANGED << Listener, ErrHandlers, MilterFactory, conn, toAccept, wg, closePC,
                  crashed, pc, session, plan, left, calls, wire, rcvd, outs, last,
                  panicv, fault, hcalls, closed, after, closes, closeErr, codec >>

\* s.Add(1); go func() { ... }()
Spawn ==
  /\ ~crashed /\ runPC = "accepted"
  /\ wg' = wg + 1
  /\ pc' = [pc EXCEPT ![conn] = "go"]
  /\ after' = [after EXCEPT ![conn] = {c \in Conns : pc[c] = "finished"}]
  /\ conn' = 0
  /\ runPC' = "accept"
  /\ UNCHANGED << Listener, ErrHandlers, MilterFactory, toAccept, closePC, crashed,
                  session, plan, left, calls, wire, rcvd, outs, last, panicv, fault,
                  hcalls, closed, acceptFails, acceptErr, runRet, closes, closeErr,
                  codec >>

\* ---------------------------------------------------------------- Close
\* A call of Close: if s.Listener != nil { err = s.Listener.Close() }.
\* Close of a listener of package net that is already closed returns the
\* error "use of closed network connection".
CloseListener ==
  /\ ~crashed /\ closePC \in {"idle", "returned"} /\ closes > 0
  /\ closes' = closes - 1
  /\ closeErr' = Append(closeErr, IF Listener = "closed" THEN "closed" ELSE "nil")
  /\ Listener' = "closed"
  /\ closePC' = "wait"
  /\ UNCHANGED << ErrHandlers, MilterFactory, runPC, conn, toAccept, wg, crashed, pc,
                  session, plan, left, calls, wire, rcvd, outs, last, panicv, fault,
                  hcalls, closed, after, acceptFails, acceptErr, runRet, codec >>

\* s.Wait() returns; return err
CloseWait ==
  /\ ~crashed /\ closePC = "wait" /\ wg = 0
  /\ closePC' = "returned"
  /\ UNCHANGED << Listener, ErrHandlers, MilterFactory, runPC, conn, toAccept, wg,
                  crashed, pc, session, plan, left, calls, wire, rcvd, outs, last,
                  panicv, fault, hcalls, closed, after, acceptFails, acceptErr,
                  runRet, closes, closeErr, codec >>

\* ------------------------------------------------------------- session
\* handleCon whose session forgets the Init call for the new session
handleConNoInit(c) ==
  /\ ~crashed /\ pc[c] = "go"
  /\ session' = [session EXCEPT ![c] =
                   [actions |-> MilterFactory.actions,
                    protocol |-> MilterFactory.protocol,
                    headers |-> NilMap, macros |-> NilMap]]
  /\ pc' = [pc EXCEPT ![c] = "loop"]
  /\ UNCHANGED << serverVars, codec, wg, crashed, plan, left, calls, wire, rcvd, outs, last,
                  panicv, fault, hcalls, closed, after >>

\* The goroutine starts: handleCon builds the session from the factory's
\* results, HandleMilterCommands registers its defers and calls Init.
handleCon(c) ==
  /\ ~crashed /\ pc[c] = "go"
  /\ session' = [session EXCEPT ![c] =
                   [actions |-> MilterFactory.actions,
                    protocol |-> MilterFactory.protocol,
                    headers |-> NilMap, macros |-> NilMap]]
  /\ calls' = [calls EXCEPT ![c] = Append(@, "Init")]
  /\ pc' = [pc EXCEPT ![c] = "loop"]
  /\ UNCHANGED << serverVars, codec, wg, crashed, plan, left, wire, rcvd, outs, last, panicv,
                  fault, hcalls, closed, after >>

\* The rounds the MTA can cause next on connection c.
Offered(c) ==
  IF plan[c] # << >> THEN { Head(plan[c]) }
  ELSE IF left[c] > 0 THEN Events
  ELSE {}

\* resp.Response()
Response(resp) == Message(resp.Code, resp.Data)

\* One round of the for loop of HandleMilterCommands under event ev: where
\* the goroutine goes next and what the round did.
Round(s, ev) ==
  LET rd == ReadPacket(ev.chunk, ev.reset)
      p == Process(rd.msg, s.actions, s.protocol, s.headers, s.macros, ev.out)
      none == [next |-> "return", read |-> rd.kind, length |-> rd.length,
               msg |-> rd.msg, calls |-> << >>, out |-> "none",
               resp |-> NilResponse, err |-> "nil", panic |-> "none",
               wrote |-> << >>, wr |-> "none",
               headers |-> s.headers, macros |-> s.macros]
  IN  IF rd.kind = "err"
      THEN [none EXCEPT !.err = "read"]
      ELSE IF rd.kind = "panic"
      THEN [none EXCEPT !.next = "panic", !.panic = "error"]
      ELSE LET writes == p.panic = "none" /\ p.err = "nil" /\ ~p.resp.isNil
               sent == writes /\ ev.wr = "ok"
           IN  [next |-> IF p.panic # "none" THEN "panic"
                         ELSE IF p.err # "nil" THEN "return"
                         ELSE IF writes /\ ~sent THEN "return"
                         ELSE "loop",
                read |-> "ok", length |-> rd.length, msg |-> rd.msg,
                calls |-> p.calls, out |-> p.out,
                resp |-> p.resp,
                err |-> IF writes /\ ~sent THEN "write" ELSE p.err,
                panic |-> p.panic,
                wrote |-> IF sent THEN WritePacket(Response(p.resp))
                          ELSE IF writes /\ ev.wr = "short"
                          THEN Take(WritePacket(Response(p.resp)), 2)
                          ELSE << >>,
                wr |-> IF writes THEN ev.wr ELSE "none",
                headers |-> p.headers, macros |-> p.macros]

HandleMilterCommands(c) ==
  /\ ~crashed /\ pc[c] = "loop"
  /\ \E ev \in Offered(c) :
       LET r == Round(session[c], ev)
       IN  /\ pc' = [pc EXCEPT ![c] = IF r.next = "loop" THEN "loop" ELSE "disconnect"]
           /\ session' = [session EXCEPT ![c].headers = r.headers,
                                         ![c].macros = r.macros]
           /\ calls' = [calls EXCEPT ![c] = @ \o r.calls]
           /\ wire' = [wire EXCEPT ![c] = @ \o r.wrote]
           /\ rcvd' = [rcvd EXCEPT ![c] = IF r.read = "ok" THEN Append(@, r.msg) ELSE @]
           /\ outs' = [outs EXCEPT ![c] = IF r.out # "none" THEN Append(@, r.out) ELSE @]
           /\ last' = [last EXCEPT ![c] =
                         [read |-> r.read, length |-> r.length, Code |-> r.msg.Code,
                          calls |-> r.calls, resp |-> r.resp, err |-> r.err,
                          panic |-> r.panic, wrote |-> r.wrote, wr |-> r.wr]]
           /\ panicv' = [panicv EXCEPT ![c] = r.panic]
           /\ fault' = [fault EXCEPT ![c] = r.panic]
  /\ plan' = [plan EXCEPT ![c] = IF @ # << >> THEN Tail(@) ELSE @]
  /\ left' = [left EXCEPT ![c] = IF plan[c] = << >> THEN @ - 1 ELSE @]
  /\ UNCHANGED << serverVars, codec, wg, crashed, hcalls, closed, after >>

\* Disconnect called at the end of the function instead of deferred: a
\* panicking session skips it
DisconnectNotDeferred(c) ==
  /\ ~crashed /\ pc[c] = "disconnect"
  /\ calls' = [calls EXCEPT ![c] = IF panicv[c] = "none" THEN Append(@, "Disconnect") ELSE @]
  /\ pc' = [pc EXCEPT ![c] = "sockclose"]
  /\ UNCHANGED << serverVars, codec, wg, crashed, session, plan, left, wire, rcvd, outs, last,
                  panicv, fault, hcalls, closed, after >>

\* defer m.milter.Disconnect()
Disconnect(c) ==
  /\ ~crashed /\ pc[c] = "disconnect"
  /\ calls' = [calls EXCEPT ![c] = Append(@, "Disconnect")]
  /\ pc' = [pc EXCEPT ![c] = "sockclose"]
  /\ UNCHANGED << serverVars, codec, wg, crashed, session, plan, left, wire, rcvd, outs, last,
                  panicv, fault, hcalls, closed, after >>

\* sock.Close called at the end of the function instead of deferred: a
\* panicking session leaves its connection open
SockCloseNotDeferred(c) ==
  /\ ~crashed /\ pc[c] = "sockclose"
  /\ closed' = [closed EXCEPT ![c] = IF panicv[c] = "none" THEN @ + 1 ELSE @]
  /\ pc' = [pc EXCEPT ![c] = "done"]
  /\ UNCHANGED << serverVars, codec, wg, crashed, session, plan, left, calls, wire,
                  rcvd, outs, last, panicv, fault, hcalls, after >>

\* defer m.sock.Close()
SockClose(c) ==
  /\ ~crashed /\ pc[c] = "sockclose"
  /\ closed' = [closed EXCEPT ![c] = @ + 1]
  /\ pc' = [pc EXCEPT ![c] = "done"]
  /\ UNCHANGED << serverVars, codec, wg, crashed, session, plan, left, calls, wire, rcvd, outs,
                  last, panicv, fault, hcalls, after >>

\* defer s.Done()
Done(c) ==
  /\ ~crashed /\ pc[c] = "done"
  /\ wg' = wg - 1
  /\ pc' = [pc EXCEPT ![c] = "handlePanic"]
  /\ UNCHANGED << serverVars, codec, crashed, session, plan, left, calls, wire, rcvd, outs, last,
                  panicv, fault, hcalls, closed, after >>

\* handlePanic that recovers before it looks at the handlers
handlePanicRecoversFirst(c) ==
  /\ ~crashed /\ pc[c] = "handlePanic"
  /\ panicv' = [panicv EXCEPT ![c] = "none"]
  /\ pc' = [pc EXCEPT ![c] =
              IF panicv[c] # "none" /\ ~ErrHandlers.isNil /\ ErrHandlers.n > 0
              THEN "handlers" ELSE "finished"]
  /\ UNCHANGED << serverVars, codec, wg, crashed, session, plan, left, calls, wire,
                  rcvd, outs, last, fault, hcalls, closed, after >>

\* defer handlePanic(s.ErrHandlers): with nil handlers it returns at once and
\* a panic goes on to end the process; otherwise it recovers, and a
\* recovered value is handed to the handlers.
handlePanic(c) ==
  /\ ~crashed /\ pc[c] = "handlePanic"
  /\ IF ErrHandlers.isNil
     THEN /\ crashed' = (panicv[c] # "none")
          /\ pc' = [pc EXCEPT ![c] = IF panicv[c] # "none" THEN "crashed" ELSE "finished"]
          /\ UNCHANGED panicv
     ELSE /\ panicv' = [panicv EXCEPT ![c] = "none"]
          /\ pc' = [pc EXCEPT ![c] =
                      IF panicv[c] # "none" /\ ErrHandlers.n > 0
                      THEN "handlers" ELSE "finished"]
          /\ UNCHANGED crashed
  /\ UNCHANGED << serverVars, codec, wg, session, plan, left, calls, wire, rcvd, outs, last,
                  fault, hcalls, closed, after >>

\* ErrHandler that stops after the first handler
ErrHandlerFirstOnly(c) ==
  /\ ~crashed /\ pc[c] = "handlers"
  /\ hcalls' = [hcalls EXCEPT ![c] =
                  Append(@, [handler |-> Len(@) + 1, isError |-> TRUE])]
  /\ pc' = [pc EXCEPT ![c] = "finished"]
  /\ UNCHANGED << serverVars, codec, wg, crashed, session, plan, left, calls, wire, rcvd, outs,
                  last, panicv, fault, closed, after >>

\* for _, f := range handlers { f(err) }: one handler per step
ErrHandler(c) ==
  /\ ~crashed /\ pc[c] = "handlers"
  /\ hcalls' = [hcalls EXCEPT ![c] =
                  Append(@, [handler |-> Len(@) + 1, isError |-> TRUE])]
  /\ pc' = [pc EXCEPT ![c] =
              IF Len(hcalls[c]) + 1 = ErrHandlers.n THEN "finished" ELSE "handlers"]
  /\ UNCHANGED << serverVars, codec, wg, crashed, session, plan, left, calls, wire, rcvd, outs,
                  last, panicv, fault, closed, after >>

Next ==
  \/ Accept
  \/ AcceptClosed
  \/ AcceptError
  \/ Spawn
  \/ CloseListener
  \/ CloseWait
  \/ \E c \in Conns : handleCon(c)
  \/ \E c \in Conns : HandleMilterCommands(c)
  \/ \E c \in Conns : Disconnect(c)
  \/ \E c \in Conns : SockClose(c)
  \/ \E c \in Conns : Done(c)
  \/ \E c \in Conns : handlePanic(c)
  \/ \E c \in Conns : ErrHandler(c)

Spec == Init /\ [][Next]_vars

\* ------------------------------------------------------- codec alone
\* No server runs: one message of any code and payload, alone or followed
\* by a second packet, is to be written to a socket and read back.
CodecInit ==
  /\ InitCommon
  /\ ErrHandlers = [isNil |-> TRUE, n |-> 0]
  /\ MilterFactory = TestFactory
  /\ toAccept = 0
  /\ plan = [c \in Conns |-> << >>]
  /\ left = [c \in Conns |-> 0]
  /\ acceptFails = FALSE
  /\ closes = 0
  /\ \E m \in Messages :
       \E q \in { << m >>, << m, Message(CodeQ, << >>) >> } :
         codec = [NoCodec EXCEPT !.queue = q]

\* WritePacket(msg) for the next message: its bytes enter the stream
CodecWrite ==
  /\ codec.queue # << >>
  /\ codec' = [codec EXCEPT !.queue = Tail(@),
                            !.sock = @ \o WritePacket(Head(codec.queue)),
                            !.sent = Append(@, Head(codec.queue))]
  /\ UNCHANGED << serverVars, wg, crashed, pc, session, plan, left, calls, wire,
                  rcvd, outs, last, panicv, fault, hcalls, closed, after >>

\* ReadPacket() on the stream: binary.Read takes four bytes and io.ReadFull
\* the number of bytes they encode
CodecRead ==
  /\ codec.sock # << >>
  /\ LET rd == ReadPacket(codec.sock, FALSE)
         used == IF rd.kind = "err" THEN Len(codec.sock) ELSE 4 + rd.length
     IN  codec' = [codec EXCEPT !.sock = Drop(@, used),
                               !.got = Append(@, [kind |-> rd.kind, msg |-> rd.msg,
                                                  length |-> rd.length, used |-> used])]
  /\ UNCHANGED << serverVars, wg, crashed, pc, session, plan, left, calls, wire,
                  rcvd, outs, last, panicv, fault, hcalls, closed, after >>

CodecNext == CodecWrite \/ CodecRead

CodecSpec == CodecInit /\ [][CodecNext]_vars

\* ====================================================== properties
\* The session of c is running: its goroutine exists and sock.Close has
\* not yet run.
Running(c) == pc[c] \in {"go", "loop", "disconnect", "sockclose"}

\* HandleMilterCommands of c has run its deferred Disconnect.
Ended(c) == pc[c] \in {"sockclose", "done", "handlePanic", "handlers", "finished", "crashed"}

EventHooks ==
  {"Connect", "Helo", "MailFrom", "RcptTo", "Header", "Headers", "BodyChunk", "Body"}

\* A filter event callback panicked in the latest round of c.
CallbackPanicked(c) ==
  /\ fault[c] # "none"
  /\ last[c].calls # << >>
  /\ last[c].calls[Len(last[c].calls)] \in EventHooks

\* C1: once Close has returned no session is still running; a connection
\* Accept handed out before the listener was closed is counted in the wait
\* group before the wait of Close completes.
C1_CloseWaitsForLateSession ==
  closePC = "returned" => \A c \in Conns : ~Running(c)

\* C2: when a filter callback panics and at least one fault handler is
\* registered, every handler is invoked exactly once, in order, with an error
\* value, the connection is closed once, the wait-group slot is released, the
\* process survives and the accept loop ends only by an error of Accept (the
\* listener's close, or a failure the listener reports).
C2_PanicIsolated ==
  \A c \in Conns :
    (CallbackPanicked(c) /\ ~ErrHandlers.isNil /\ ErrHandlers.n >= 1) =>
      /\ ~crashed
      /\ runPC = "returned" =>
           \/ acceptErr = "closed" /\ Listener = "closed"
           \/ acceptErr = "temporary"
      /\ Len(hcalls[c]) <= ErrHandlers.n
      /\ \A i \in 1..Len(hcalls[c]) : hcalls[c][i] = [handler |-> i, isError |-> TRUE]
      /\ pc[c] = "handlers" => closed[c] = 1
      /\ pc[c] = "finished" =>
           /\ Len(hcalls[c]) = ErrHandlers.n
           /\ closed[c] = 1
           /\ wg = Cardinality({d \in Conns : pc[d] \in {"go", "loop", "disconnect", "sockclose", "done"}})

\* C2 witness: a session whose Helo callback panicked is over, both handlers
\* have run, and a connection accepted after that has been served to its Q.
C2_Witness ==
  \E c, d \in Conns :
    /\ CallbackPanicked(c) /\ pc[c] = "finished"
    /\ ErrHandlers.n = NumHandlers /\ Len(hcalls[c]) = NumHandlers
    /\ c \in after[d] /\ pc[d] = "finished" /\ fault[d] = "none"
    /\ Len(rcvd[d]) = 3 /\ rcvd[d][3].Code = CodeQ /\ wire[d] # << >>

\* C3: a packet whose length prefix is 0 is a stream error: the read fails,
\* nothing panics, no callback runs, and the process is unaffected.
C3_ZeroLengthIsStreamError ==
  \A c \in Conns :
    last[c].length = 0 =>
      /\ last[c].err = "read"
      /\ last[c].calls = << >>
      /\ fault[c] = "none"
      /\ pc[c] # "loop"
      /\ ~crashed

\* The no-reply bit of the protocol bitmask for a command code, 0 if none.
NoReplyBit(code) ==
  CASE code = CodeC -> OptNrConn
    [] code = CodeH -> OptNrHelo
    [] code = CodeM -> OptNrMailFrom
    [] code = CodeR -> OptNrRcptTo
    [] code = CodeT -> OptNrData
    [] code = CodeL -> OptNrHdr
    [] code = CodeN -> OptNrEOH
    [] code = CodeB -> OptNrBody
    [] code \in KnownCodes -> 0
    [] OTHER -> OptNrUnknown

NoReply(c) ==
  /\ last[c].read = "ok"
  /\ NoReplyBit(last[c].Code) # 0
  /\ HasBit(session[c].protocol, NoReplyBit(last[c].Code))

\* C4: for a command whose no-reply bit is set in the session's protocol
\* bitmask, a Continue verdict writes zero bytes and any other verdict
\* writes exactly one response packet.
C4_NoReplySuppressesContinue ==
  \A c \in Conns :
    (NoReply(c) /\ ~last[c].resp.isNil /\ last[c].wr = "ok") =>
      IF last[c].resp.Code = RespContinue
      THEN last[c].wrote = << >>
      ELSE last[c].wrote = << 0, 0, 0, 1, last[c].resp.Code >>

\* The messages ReadPacket yields for well-formed packets of the codes.
GoodMessages(codes) ==
  [i \in 1..Len(codes) |-> Message(codes[i], GoodPayload(codes[i]))]

Codes(msgs) == [i \in 1..Len(msgs) |-> msgs[i].Code]

Count(seq, x) == Cardinality({i \in 1..Len(seq) : seq[i] = x})

BigEndianAt(w, i) ==
  w[i] * 16777216 + w[i + 1] * 65536 + w[i + 2] * 256 + w[i + 3]

\* C6: for O, C, Q (Connect returning Continue) the bytes written are one O
\* packet whose payload is the big-endian uint32 values 2, the factory's
\* action bitmask and the factory's protocol bitmask, then one Continue
\* packet, and nothing for Q.
C6_MinimalAcceptWire ==
  \A c \in Conns :
    ( /\ Ended(c)
      /\ Codes(rcvd[c]) = << CodeO, CodeC, CodeQ >>
      /\ outs[c] = << "continue" >> ) =>
      /\ Len(wire[c]) = 22
      /\ \A i \in 1..22 : wire[c][i] \in 0..255
      /\ BigEndianAt(wire[c], 1) = 13
      /\ wire[c][5] = CodeO
      /\ BigEndianAt(wire[c], 6) = 2
      /\ BigEndianAt(wire[c], 10) = MilterFactory.actions
      /\ BigEndianAt(wire[c], 14) = MilterFactory.protocol
      /\ SubSeq(wire[c], 18, 22) = << 0, 0, 0, 1, 99 >>

C6_Witness ==
  \E c \in Conns :
    /\ pc[c] = "finished"
    /\ Codes(rcvd[c]) = << CodeO, CodeC, CodeQ >>
    /\ outs[c] = << "continue" >>
    /\ Len(wire[c]) = 22

\* C7: no SMTP-event callback is invoked before an O command has been
\* received on the connection.
C7_NoEventBeforeNegotiation ==
  \A c \in Conns :
    (\E i \in 1..Len(last[c].calls) : last[c].calls[i] \in EventHooks) =>
      \E j \in 1..(Len(rcvd[c]) - 1) : rcvd[c][j].Code = CodeO

\* C8: a second O on a connection that has completed option negotiation is
\* not answered with another O reply and terminates the session.
C8_SecondNegotiationRejected ==
  \A c \in Conns :
    ( /\ last[c].read = "ok" /\ last[c].Code = CodeO
      /\ \E j \in 1..(Len(rcvd[c]) - 1) : rcvd[c][j].Code = CodeO ) =>
      /\ last[c].wrote = << >>
      /\ pc[c] # "loop"

\* C9: a command whose code is not one of A,B,C,D,E,H,L,M,N,O,Q,R,T ends the
\* session: no callback is invoked for it, no response is written, and the
\* connection is closed.
C9_UnknownCommandCloses ==
  \A c \in Conns :
    (last[c].read = "ok" /\ last[c].Code \notin KnownCodes) =>
      /\ last[c].calls = << >>
      /\ last[c].wrote = << >>
      /\ fault[c] = "none"
      /\ pc[c] \in {"disconnect", "sockclose", "done", "handlePanic", "finished"}
      /\ pc[c] \in {"done", "handlePanic", "finished"} => closed[c] = 1

C9_Witness ==
  \E c \in Conns :
    /\ last[c].read = "ok" /\ last[c].Code = CodeX
    /\ Len(rcvd[c]) > 1
    /\ pc[c] = "finished" /\ closed[c] = 1

\* C10: the session-end hook is invoked exactly once per connection, after
\* every other callback of the session and after its last packet, whichever
\* way the session ends.
C10_EndSessionOnceLast ==
  /\ [](\A c \in Conns :
          /\ Count(calls[c], "Disconnect") = IF Ended(c) THEN 1 ELSE 0
          /\ Ended(c) => calls[c][Len(calls[c])] = "Disconnect")
  /\ [][\A c \in Conns :
          Ended(c) => rcvd'[c] = rcvd[c] /\ calls'[c] = calls[c] /\ wire'[c] = wire[c]]_vars

\* C10 witness: a session ended by a panic of its filter has run the hook.
C10_Witness ==
  \E c \in Conns :
    /\ CallbackPanicked(c) /\ Ended(c)
    /\ calls[c][Len(calls[c])] = "Disconnect"
    /\ Len(calls[c]) > 2

\* C11: every M invokes the new-message hook exactly once, before its
\* MailFrom callback, and no other command invokes it: beyond the call at
\* the start of the session, the hook has run once per M received.
C11_NewMessageOncePerM ==
  \A c \in Conns :
    /\ last[c].read = "ok" =>
         Count(last[c].calls, "Init") = IF last[c].Code = CodeM THEN 1 ELSE 0
    /\ (last[c].read = "ok" /\ last[c].Code = CodeM) =>
         last[c].calls = << "Init", "MailFrom" >>
    /\ pc[c] \notin {"none", "go"} =>
         Count(calls[c], "Init") = 1 + Count(Codes(rcvd[c]), CodeM)

\* The headers of the L commands among msgs that follow the last M or A.
RECURSIVE HeadersSince(_)
HeadersSince(msgs) ==
  IF msgs = << >> THEN << >>
  ELSE LET m == msgs[Len(msgs)]
           rest == Take(msgs, Len(msgs) - 1)
           HeaderData == decodeCStrings(m.Data)
       IN  IF m.Code \in {CodeM, CodeA} THEN << >>
           ELSE IF m.Code = CodeL /\ Len(HeaderData) = 2
           THEN Append(HeadersSince(rest),
                       << CanonicalKey(HeaderData[1], TRUE), HeaderData[2] >>)
           ELSE HeadersSince(rest)

\* C12: the header map handed to Headers on N holds exactly the headers of
\* the L commands since the most recent M or A, and after every A and every
\* M the map is empty.
C12_HeadersOfCurrentMessage ==
  \A c \in Conns :
    /\ (last[c].read = "ok" /\ last[c].Code = CodeN) =>
         session[c].headers.kv = HeadersSince(rcvd[c])
    /\ (last[c].read = "ok" /\ last[c].Code \in {CodeM, CodeA}) =>
         session[c].headers.kv = << >>

\* The macro map that the D commands among msgs define when macros
\* accumulate and only A clears them.
RECURSIVE MacrosDefined(_)
MacrosDefined(msgs) ==
  IF msgs = << >> THEN << >>
  ELSE LET m == msgs[Len(msgs)]
           before == MacrosDefined(Take(msgs, Len(msgs) - 1))
       IN  IF m.Code = CodeA THEN << >>
           ELSE IF m.Code = CodeD /\ m.Data # << >>
           THEN DefineMacros(before, decodeCStrings(Drop(m.Data, 1))).kv
           ELSE before

\* C13: a macro defined by a D command stays in the session's macro map
\* with its value, across later D commands for other keys and across M and
\* E, until a D redefines the key or an A clears the map.
C13_MacrosAccumulate ==
  \A c \in Conns :
    fault[c] = "none" =>
      LET have == session[c].macros.kv
          want == MacrosDefined(rcvd[c])
      IN  { have[i] : i \in 1..Len(have) } = { want[i] : i \in 1..Len(want) }

\* C14: reading with ReadPacket the bytes WritePacket produced for a message
\* of any code and payload yields that message again, consumes exactly
\* 4 + 1 + len(payload) bytes, and the length prefix is len(payload) + 1.
C14_CodecRoundTrip ==
  /\ Len(codec.got) <= Len(codec.sent)
  /\ \A i \in 1..Len(codec.got) :
       /\ codec.got[i].kind = "ok"
       /\ codec.got[i].msg = codec.sent[i]
       /\ codec.got[i].length = Len(codec.sent[i].Data) + 1
       /\ codec.got[i].used = 4 + 1 + Len(codec.sent[i].Data)
  /\ Len(codec.got) = Len(codec.sent) => codec.sock = << >>

\* C14 witness: a message with the longest payload and one with an empty
\* payload have both been written and read back.
C14_Witness ==
  /\ Len(codec.got) = 2
  /\ Len(codec.got[1].msg.Data) = MaxLen
  /\ codec.got[1].msg.Data[1] = 0
  /\ codec.got[2].msg.Data = << >>
  /\ codec.got[2].length = 1

\* C15: when RunServer has returned, its return value is the error that
\* Accept reported; it never returns without an Accept error, whatever
\* errors the sessions met.
C15_RunServerReturnsAcceptError ==
  runPC = "returned" => (acceptErr # "nil" /\ runRet = acceptErr)

\* C16: Close is idempotent: every repeated call of Close has the result of
\* the first call (the repetition introduces no error), and the listener
\* stays closed.
C16_CloseIdempotent ==
  /\ \A k \in 1..Len(closeErr) : closeErr[k] = closeErr[1]
  /\ closeErr # << >> => Listener = "closed"

\* C17: with a nil handler list a panic raised in a session is never
\* recovered: the goroutine goes on panicking through its deferred calls,
\* the process crashes when the panic leaves the goroutine, and no fault
\* handler runs.
C17_NilHandlersCrash ==
  ErrHandlers.isNil =>
    /\ \A c \in Conns : hcalls[c] = << >>
    /\ \A c \in Conns :
         fault[c] # "none" =>
           /\ panicv[c] = fault[c]
           /\ pc[c] \in {"disconnect", "sockclose", "done", "handlePanic", "crashed"}
           /\ pc[c] = "crashed" => crashed
    /\ crashed <=> \E c \in Conns : pc[c] = "crashed"

\* C17 witness: the panic of a Helo callback has crashed the process while
\* another connection was being served.
C17_Witness ==
  \E c, d \in Conns :
    /\ ErrHandlers.isNil /\ crashed
    /\ pc[c] = "crashed" /\ CallbackPanicked(c) /\ closed[c] = 1
    /\ pc[d] = "loop" /\ rcvd[d] # << >>

\* The payload of msg is shorter than the layout of its command code: a C
\* without a terminated host name, without family byte or with family '4'
\* or '6' and fewer than two port bytes, an L without two C-strings, a D
\* whose strings after the stage byte do not pair up.
ShortPayload(msg) ==
  CASE msg.Code = CodeC ->
         LET Hostname == readCString(msg.Data)
             rest == Drop(msg.Data, Len(Hostname) + 1)
         IN  \/ Len(Hostname) + 1 > Len(msg.Data)
             \/ rest = << >>
             \/ rest[1] \in {Family4, Family6} /\ Len(rest) - 1 < 2
    [] msg.Code = CodeL -> Len(decodeCStrings(msg.Data)) < 2
    [] msg.Code = CodeD ->
         msg.Data # << >> /\ Len(decodeCStrings(Drop(msg.Data, 1))) % 2 = 1
    [] OTHER -> FALSE

\* C18: a recognized command whose payload is shorter than its layout is
\* answered with Tempfail and the session goes on to the next command: it
\* does not fault and, unless the write of the response fails, is not closed.
C18_ShortPayloadTempfail ==
  \A c \in Conns :
    (last[c].read = "ok" /\ ShortPayload(rcvd[c][Len(rcvd[c])])) =>
      /\ fault[c] = "none"
      /\ last[c].resp = SimpleResponse(RespTempFail)
      /\ last[c].wr = "ok" =>
           /\ last[c].wrote = << 0, 0, 0, 1, RespTempFail >>
           /\ pc[c] = "loop"

\* C19: a D command with an empty payload is accepted: the macro map after
\* it equals the map before it, nothing is written, no fault occurs and the
\* session goes on to the next command.
C19_EmptyMacroAccepted ==
  [][\A c \in Conns :
       ( /\ Len(rcvd'[c]) = Len(rcvd[c]) + 1
         /\ rcvd'[c][Len(rcvd'[c])] = Message(CodeD, << >>) ) =>
         /\ session'[c].macros.kv = session[c].macros.kv
         /\ wire'[c] = wire[c]
         /\ fault'[c] = "none"
         /\ pc'[c] = "loop"]_vars

\* C20: when Body has returned its verdict for an E command, the filter's
\* per-message init hook has been invoked after Body and the header map of
\* the finished message is empty.
C20_EndOfBodyResets ==
  \A c \in Conns :
    ( /\ last[c].read = "ok" /\ last[c].Code = CodeE
      /\ last[c].panic = "none" /\ ~last[c].resp.isNil ) =>
      /\ last[c].calls = << "Body", "Init" >>
      /\ session[c].headers.kv = << >>

\* C21: when a filter event callback returns an error, nothing is written
\* for that command, it is the last command the session reads and
\* dispatches, and the session ends without a fault, with the session-end
\* hook run and the connection closed.
C21_FilterErrorEndsSession ==
  \A c \in Conns :
    (\E i \in 1..Len(outs[c]) : outs[c][i] = "error") =>
      /\ \A i \in 1..Len(outs[c]) : outs[c][i] = "error" => i = Len(outs[c])
      /\ last[c].read = "ok" /\ last[c].err = "filter"
      /\ last[c].calls # << >> /\ last[c].wrote = << >>
      /\ fault[c] = "none"
      /\ pc[c] \in {"disconnect", "sockclose", "done", "handlePanic", "finished"}
      /\ Ended(c) => calls[c][Len(calls[c])] = "Disconnect"
      /\ pc[c] \in {"done", "handlePanic", "finished"} => closed[c] = 1

\* C21 witness: the MailFrom callback of a conversation returned an error;
\* the session is over and the connection closed although the MTA had more
\* packets to send.
C21_Witness ==
  \E c \in Conns :
    /\ Codes(rcvd[c]) = << CodeO, CodeC, CodeH, CodeM >>
    /\ outs[c] = << "continue", "continue", "error" >>
    /\ plan[c] # << >>
    /\ pc[c] = "finished" /\ closed[c] = 1

\* C22: however a session ends, its connection is closed exactly once, after
\* the session-end hook has run, and nothing is written to it afterwards.
C22_StreamClosedOnce ==
  /\ [](\A c \in Conns :
          /\ closed[c] = IF pc[c] \in {"done", "handlePanic", "handlers",
                                       "finished", "crashed"} THEN 1 ELSE 0
          /\ closed[c] = 1 =>
               /\ Count(calls[c], "Disconnect") = 1
               /\ calls[c][Len(calls[c])] = "Disconnect")
  /\ [][\A c \in Conns :
          closed[c] = 1 => wire'[c] = wire[c] /\ closed'[c] = 1]_vars

\* C22 witness: a session ended because the write of a response broke off
\* after some bytes; its connection has been closed.
C22_Witness ==
  \E c \in Conns :
    /\ last[c].err = "write" /\ last[c].wr = "short" /\ last[c].wrote # << >>
    /\ pc[c] = "finished" /\ closed[c] = 1
    /\ calls[c][Len(calls[c])] = "Disconnect"

\* C23: the wait-group slot of a panicking session is released only after
\* its fault handlers have run, so when Close has returned every handler
\* invocation triggered by a session that gave its slot back has completed.
C23_HandlersDoneBeforeRelease ==
  /\ \A c \in Conns :
       ( /\ pc[c] \in {"handlePanic", "handlers", "finished"}
         /\ fault[c] # "none" /\ ~ErrHandlers.isNil ) =>
         Len(hcalls[c]) = ErrHandlers.n
  /\ closePC = "returned" =>
       \A c \in Conns :
         (fault[c] # "none" /\ ~ErrHandlers.isNil /\ pc[c] \notin {"disconnect", "sockclose", "done"}) =>
           Len(hcalls[c]) = ErrHandlers.n

====
